---- MODULE Spec2Model ----
(***************************************************************************)
(* Model of tornado_restless/convert.py and tornado_restless/helpers.py:   *)
(* the filter/query builder and the projection serializer.                 *)
(*                                                                         *)
(* Python values are records tagged with their type in field t.  An        *)
(* exception leaving a function is the record Raise(exc, line), line being *)
(* the line of convert.py that raises.  default_options is the mapping     *)
(* collections.defaultdict(bool) that the def of to_dict creates once as   *)
(* the default of its parameter options.                                   *)
(* A str value is the sequence of its characters, because the code splits  *)
(* strings ('__' and '.'); operator names and the keys of filter           *)
(* descriptions are only looked up and are TLA+ strings.                   *)
(***************************************************************************)
EXTENDS Integers, Sequences, FiniteSets, TLC

VARIABLES pc, op, args, rtn, default_options

vars == <<pc, op, args, rtn, default_options>>

-----------------------------------------------------------------------------
(* Bounds of the model *)

\* most nodes (leaves and junctions) of a filter description
MaxNodes == 5
\* deepest nesting of filter descriptions inside a has/any argument
MaxNest == 1
\* largest limit / offset of a pagination
MaxPage == 2
\* most segments of a column path given to parse_columns
MaxSegments == 2
\* most column paths in one parse_columns call
MaxStrings == 3
\* most nodes (scalars, mappings and sequences) of a plain value
MaxSize == 4
\* most column paths of the requested side of a combine_columns call
MaxRequested == 2

-----------------------------------------------------------------------------
(* Python values *)

None == [t |-> "None"]

PyInt(n) == [t |-> "int", v |-> n]

\* a str: its characters
PyStr(s) == [t |-> "str", v |-> s]

PyBool(b) == [t |-> "bool", v |-> b]

PyList(s) == [t |-> "list", v |-> s]

PyDict(d) == [t |-> "dict", v |-> d]

Raise(exc, line) == [t |-> "raise", exc |-> exc, line |-> line]

IsRaise(x) == x.t = "raise"

\* bool(x) of a value
Truthy(x) ==
    CASE x.t = "None" -> FALSE
      [] x.t = "int" -> x.v # 0
      [] x.t = "bool" -> x.v
      [] x.t = "str" -> x.v # <<>>
      [] x.t = "list" -> x.v # <<>>
      [] x.t = "dict" -> DOMAIN x.v # {}
      [] OTHER -> TRUE

\* dictionary.get(key) on a mapping with string keys
DictGet(d, key) == IF key \in DOMAIN d THEN d[key] ELSE None

-----------------------------------------------------------------------------
(* str methods used by the code, on sequences of characters *)

IsAt(s, sep, i) ==
    /\ i + Len(sep) - 1 <= Len(s)
    /\ \A j \in 1..Len(sep) : s[i + j - 1] = sep[j]

\* index of the leftmost occurrence of sep in s, 0 when there is none
Find(s, sep) ==
    IF \E i \in 1..Len(s) : IsAt(s, sep, i)
    THEN CHOOSE i \in 1..Len(s) :
            IsAt(s, sep, i) /\ \A j \in 1..(i - 1) : ~IsAt(s, sep, j)
    ELSE 0

\* sep in s
Contains(s, sep) == Find(s, sep) # 0

RECURSIVE split(_, _, _)
\* s.split(sep, maxsplit); maxsplit = -1 is s.split(sep)
split(s, sep, maxsplit) ==
    LET i == Find(s, sep) IN
    IF i = 0 \/ maxsplit = 0
    THEN <<s>>
    ELSE <<SubSeq(s, 1, i - 1)>>
         \o split(SubSeq(s, i + Len(sep), Len(s)), sep,
                  IF maxsplit < 0 THEN maxsplit ELSE maxsplit - 1)

DUNDER == <<"_", "_">>

DOT == <<".">>

-----------------------------------------------------------------------------
(* The mapped models the queries run against: each attribute in the order   *)
(* the class declares it.  kind is what getattr(Model, name) gives:         *)
(* column and relationship are InstrumentedAttributes, proxy is an          *)
(* AssociationProxy, hybrid a hybrid property.                              *)

n_id == <<"i", "d">>
n_name == <<"n", "a", "m", "e">>
n_age == <<"a", "g", "e">>
n_pets == <<"p", "e", "t", "s">>
n_owner == <<"o", "w", "n", "e", "r">>
n_nick == <<"n", "i", "c", "k">>
n_uid == <<"u", "i", "d">>
n_gid == <<"g", "i", "d">>
n_big == <<"b", "i", "g">>
n_zz == <<"z", "z">>

Column(n, pk) == [name |-> n, kind |-> "column", pk |-> pk, target |-> ""]

Relationship(n, m) == [name |-> n, kind |-> "relationship", pk |-> FALSE, target |-> m]

Proxy(n, m) == [name |-> n, kind |-> "proxy", pk |-> FALSE, target |-> m]

Hybrid(n) == [name |-> n, kind |-> "hybrid", pk |-> FALSE, target |-> ""]

ModelAttrs ==
    [Person |-> <<Column(n_id, TRUE), Column(n_name, FALSE), Column(n_age, FALSE),
                  Relationship(n_pets, "Pet"), Proxy(n_nick, "Pet"),
                  Hybrid(n_big)>>,
     Pet |-> <<Column(n_id, TRUE), Column(n_name, FALSE),
               Relationship(n_owner, "Person")>>,
     Member |-> <<Column(n_uid, TRUE), Column(n_gid, TRUE), Column(n_name, FALSE)>>]

Models == DOMAIN ModelAttrs

AttrIndex(model, name) ==
    {i \in 1..Len(ModelAttrs[model]) : ModelAttrs[model][i].name = name}

\* getattr(model, name) on a model class; line is the line of the call
getattr(model, name, line) ==
    IF AttrIndex(model, name) = {}
    THEN Raise("AttributeError", line)
    ELSE LET a == ModelAttrs[model][CHOOSE i \in AttrIndex(model, name) : TRUE]
         IN [t |-> "attr", model |-> model, name |-> name,
             kind |-> a.kind, target |-> a.target]

\* isinstance(field, InstrumentedAttribute)
IsInstrumentedAttribute(field) == field.kind \in {"column", "relationship"}

\* the names convert.py binds at module level: its imports (lines 6-23) and
\* its own definitions
ModuleGlobals ==
    {"collections", "datetime", "date", "time", "inspect", "itertools", "UUID",
     "IllegalArgumentError", "DictConvertionError",
     "get_related_association_proxy_model", "primary_key_names",
     "session_query", "ModelWrapper", "WKTElement", "WKBElement", "to_shape",
     "to_mapping", "object_mapper", "InstrumentedAttribute",
     "UnmappedInstanceError", "Query",
     "Filter", "JunctionFilter", "ConjunctionFilter", "DisjunctionFilter",
     "_sub_operator", "OPERATORS", "QueryBuilder", "build_query",
     "parse_columns", "combine_columns", "to_deep", "to_dict"}

-----------------------------------------------------------------------------
(* Filter objects (convert.py, class Filter and its subclasses) *)

Filter(fieldname, operator, argument, otherfield) ==
    [t |-> "Filter", fieldname |-> fieldname, operator |-> operator,
     argument |-> argument, otherfield |-> otherfield]

ConjunctionFilter(subfilters) == [t |-> "ConjunctionFilter", subfilters |-> subfilters]

DisjunctionFilter(subfilters) == [t |-> "DisjunctionFilter", subfilters |-> subfilters]

\* isinstance(filt, JunctionFilter)
IsJunctionFilter(filt) == filt.t \in {"ConjunctionFilter", "DisjunctionFilter"}

RECURSIVE from_dictionary(_)
from_dictionary(dictionary) ==
    LET d == dictionary.v IN
    IF "or" \notin DOMAIN d /\ "and" \notin DOMAIN d
    THEN Filter(DictGet(d, "name"), DictGet(d, "op"), DictGet(d, "val"),
                DictGet(d, "field"))
    ELSE IF "or" \in DOMAIN d
         THEN DisjunctionFilter([i \in 1..Len(d["or"].v) |->
                                    from_dictionary(d["or"].v[i])])
         ELSE ConjunctionFilter([i \in 1..Len(d["and"].v) |->
                                    from_dictionary(d["and"].v[i])])

-----------------------------------------------------------------------------
(* The operator table and the compilation of one operation *)

Operator(numargs, sem) == [numargs |-> numargs, sem |-> sem]

\* operator name -> number of parameters of its lambda, and what the lambda
\* builds
OPERATORS ==
    "is_null" :> Operator(1, "== None") @@ "is_not_null" :> Operator(1, "!= None")
    @@ "desc" :> Operator(1, ".desc") @@ "asc" :> Operator(1, ".asc")
    @@ "==" :> Operator(2, "==") @@ "eq" :> Operator(2, "==")
    @@ "equals" :> Operator(2, "==") @@ "equal_to" :> Operator(2, "==")
    @@ "!=" :> Operator(2, "!=") @@ "ne" :> Operator(2, "!=")
    @@ "neq" :> Operator(2, "!=") @@ "not_equal_to" :> Operator(2, "!=")
    @@ "does_not_equal" :> Operator(2, "!=")
    @@ ">" :> Operator(2, ">") @@ "gt" :> Operator(2, ">")
    @@ "<" :> Operator(2, "<") @@ "lt" :> Operator(2, "<")
    @@ ">=" :> Operator(2, ">=") @@ "ge" :> Operator(2, ">=")
    @@ "gte" :> Operator(2, ">=") @@ "geq" :> Operator(2, ">=")
    @@ "<=" :> Operator(2, "<=") @@ "le" :> Operator(2, "<=")
    @@ "lte" :> Operator(2, "<=") @@ "leq" :> Operator(2, "<=")
    @@ "ilike" :> Operator(2, "ilike") @@ "like" :> Operator(2, "like")
    @@ "in" :> Operator(2, "in_") @@ "not_in" :> Operator(2, "~in_")
    @@ "has" :> Operator(3, "has") @@ "any" :> Operator(3, "any")

\* the expression a lambda of OPERATORS returns: sem applied to field f and
\* right-hand side a
Pred(sem, f, a) == [t |-> "pred", sem |-> sem, f |-> f, a |-> a]

\* len(inspect.getargspec(opfunc).args)
numargs(operator) == OPERATORS[operator].numargs

\* opfunc(field) of a one-parameter lambda
opfunc1(operator, field) ==
    CASE operator = "is_null" -> Pred("==", field, None)
      [] operator = "is_not_null" -> Pred("!=", field, None)
      [] OTHER -> [t |-> "method", name |-> OPERATORS[operator].sem, f |-> field]

\* opfunc(field, argument) of a two-parameter lambda
opfunc2(operator, field, argument) == Pred(OPERATORS[operator].sem, field, argument)

\* the test of line 243 left out
ArgumentIsNone_skipped(argument) == FALSE

\* `argument is None` on line 243
ArgumentIsNone(argument) == argument = None

\* OPERATORS[operator] on line 233 raises KeyError
UnknownOperator(operator) == operator \notin DOMAIN OPERATORS

\* `relation or fieldname` on line 238
RelationOrFieldname(relation, fieldname) ==
    IF Truthy(relation) THEN relation ELSE fieldname

RECURSIVE _create_operation(_, _, _, _, _)
RECURSIVE _sub_operator(_, _, _)

_sub_operator(model, argument, fieldname) ==
    LET err == IF IsInstrumentedAttribute(model)
               THEN (IF model.kind = "relationship"
                     THEN None
                     ELSE Raise("AttributeError", 133))
               ELSE IF "AssociationProxy" \in ModuleGlobals
                    THEN None
                    ELSE Raise("NameError", 134)
        submodel == model.target
    IN
    IF IsRaise(err) THEN err
    ELSE IF argument.t = "dict"
    THEN LET d == argument.v IN
         IF "name" \notin DOMAIN d THEN Raise("KeyError", 139)
         ELSE IF "op" \notin DOMAIN d THEN Raise("KeyError", 140)
         ELSE LET parts == split(d.name.v, DUNDER, -1) IN
              IF Contains(d.name.v, DUNDER)
              THEN IF Len(parts) # 2
                   THEN Raise("ValueError", 144)
                   ELSE _create_operation(submodel, PyStr(parts[1]), d.op,
                                          DictGet(d, "val"), PyStr(parts[2]))
              ELSE _create_operation(submodel, d.name, d.op,
                                     DictGet(d, "val"), None)
    ELSE LET f == getattr(submodel, fieldname.v, 148) IN
         IF IsRaise(f) THEN f ELSE Pred("==", f, argument)

\* opfunc(field, argument, fieldname) of has / any
opfunc3(operator, field, argument, fieldname) ==
    LET sub == _sub_operator(field, argument, fieldname) IN
    IF IsRaise(sub) THEN sub ELSE Pred(OPERATORS[operator].sem, field, sub)

\* _create_operation resolving the field before it looks the operator up
_create_operation_field_first(model, fieldname, operator, argument, relation) ==
    LET field == getattr(model, RelationOrFieldname(relation, fieldname).v, 238) IN
    IF IsRaise(field) THEN field
    ELSE IF UnknownOperator(operator) THEN Raise("KeyError", 233)
    ELSE IF numargs(operator) = 1 THEN opfunc1(operator, field)
    ELSE IF ArgumentIsNone(argument) THEN Raise("TypeError", 246)
    ELSE IF numargs(operator) = 2 THEN opfunc2(operator, field, argument)
    ELSE opfunc3(operator, field, argument, fieldname)

_create_operation(model, fieldname, operator, argument, relation) ==
    IF UnknownOperator(operator) THEN Raise("KeyError", 233)
    ELSE LET field == getattr(model, RelationOrFieldname(relation, fieldname).v, 238)
         IN
         IF IsRaise(field) THEN field
         ELSE IF numargs(operator) = 1 THEN opfunc1(operator, field)
         ELSE IF ArgumentIsNone(argument) THEN Raise("TypeError", 246)
         ELSE IF numargs(operator) = 2 THEN opfunc2(operator, field, argument)
         ELSE opfunc3(operator, field, argument, fieldname)

\* the exception of filt[key], None when the subscript succeeds: a dict
\* raises KeyError for a missing key, a Filter object defines no __getitem__
GetItemError(filt, key, line) ==
    IF filt.t = "dict"
    THEN (IF key \in DOMAIN filt.v THEN None ELSE Raise("KeyError", line))
    ELSE Raise("TypeError", line)

\* and_(...) / or_(...) of the compiled subfilters: the first exception, or
\* the junction of the predicates
Junction(sem, preds) ==
    IF \E i \in 1..Len(preds) : IsRaise(preds[i])
    THEN preds[CHOOSE i \in 1..Len(preds) :
                  IsRaise(preds[i]) /\ \A j \in 1..(i - 1) : ~IsRaise(preds[j])]
    ELSE [t |-> "pred", sem |-> sem, f |-> None, a |-> preds]

RECURSIVE _create_filter(_, _)
_create_filter(model, filt) ==
    IF ~IsJunctionFilter(filt)
    THEN LET e1 == GetItemError(filt, "name", 262)
             e2 == GetItemError(filt, "value", 263)
         IN
         IF IsRaise(e1) THEN e1
         ELSE IF IsRaise(e2) THEN e2
         ELSE LET name0 == filt.v.name
                  parts == split(name0.v, DUNDER, -1)
                  hasrel == Contains(name0.v, DUNDER)
              IN
              IF hasrel /\ Len(parts) # 2 THEN Raise("ValueError", 267)
              ELSE LET relation == IF hasrel THEN PyStr(parts[1]) ELSE None
                       fname == IF hasrel THEN PyStr(parts[2]) ELSE name0
                       other == DictGet(filt.v, "otherfield")
                       val == IF Truthy(other)
                              THEN getattr(model, other.v, 270)
                              ELSE filt.v.value
                       e3 == GetItemError(filt, "op", 273)
                   IN
                   IF IsRaise(val) THEN val
                   ELSE IF IsRaise(e3) THEN e3
                   ELSE _create_operation(model, fname, filt.v.op, val, relation)
    ELSE IF filt.t = "ConjunctionFilter"
         THEN IF "and_" \notin ModuleGlobals
              THEN Raise("NameError", 278)
              ELSE Junction("and", [i \in 1..Len(filt.subfilters) |->
                                       _create_filter(model, filt.subfilters[i])])
         ELSE IF "or_" \notin ModuleGlobals
              THEN Raise("NameError", 279)
              ELSE Junction("or", [i \in 1..Len(filt.subfilters) |->
                                      _create_filter(model, filt.subfilters[i])])

-----------------------------------------------------------------------------
(* Model introspection (helpers.py) *)

\* ord(c) of the characters names are made of
Ord ==
    "%" :> 37 @@ "." :> 46 @@ "J" :> 74 @@ "_" :> 95 @@ "a" :> 97 @@ "b"
    :> 98 @@ "c" :> 99 @@ "d" :> 100 @@ "e" :> 101 @@ "f" :> 102 @@ "g" :>
    103 @@ "h" :> 104 @@ "i" :> 105 @@ "j" :> 106 @@ "k" :> 107 @@ "l" :>
    108 @@ "m" :> 109 @@ "n" :> 110 @@ "o" :> 111 @@ "p" :> 112 @@ "q" :>
    113 @@ "r" :> 114 @@ "s" :> 115 @@ "t" :> 116 @@ "u" :> 117 @@ "v" :>
    118 @@ "w" :> 119 @@ "x" :> 120 @@ "y" :> 121 @@ "z" :> 122

\* a < b on str values: lexicographic by character code
StrLess(a, b) ==
    \E k \in 1..(Len(b)) :
        /\ \A j \in 1..(k - 1) : j <= Len(a) /\ a[j] = b[j]
        /\ \/ k = Len(a) + 1
           \/ k <= Len(a) /\ Ord[a[k]] < Ord[b[k]]

\* the test of primary_key_names without its primary_key condition
PrimaryKeyMembers_every_column(model) ==
    {i \in 1..Len(ModelAttrs[model]) : ModelAttrs[model][i].kind = "column"}

\* the indexes of the members of model that pass the test of
\* primary_key_names: a QueryableAttribute with a ColumnProperty whose column
\* is a primary key
PrimaryKeyMembers(model) ==
    {i \in 1..Len(ModelAttrs[model]) :
        ModelAttrs[model][i].kind = "column" /\ ModelAttrs[model][i].pk}

\* the members in the order inspect.getmembers returns them: sorted by name
primary_key_names(model) ==
    LET pks == PrimaryKeyMembers(model)
        name(i) == ModelAttrs[model][i].name
    IN [k \in 1..Cardinality(pks) |->
           name(CHOOSE i \in pks :
                   Cardinality({j \in pks : StrLess(name(j), name(i))}) = k - 1)]

-----------------------------------------------------------------------------
(* The query builder.  A query is the model it selects from and the         *)
(* sequence of the method calls made on it so far.                          *)

\* session_query(session, model): a new query on model
session_query(model) == [t |-> "query", model |-> model, steps |-> <<>>]

\* query.method(argument)
Step(query, method, argument) ==
    [query EXCEPT !.steps = Append(@, [m |-> method, a |-> argument])]

\* field.asc() / field.desc()
Direction(field, direction) == [f |-> field, dir |-> direction]

\* lines 308-311: compile every filter, then query.filter(*filters)
ApplyFilters(query, model, filters) ==
    LET compiled == [i \in 1..Len(filters) |-> _create_filter(model, filters[i])] IN
    IF \E i \in 1..Len(compiled) : IsRaise(compiled[i])
    THEN compiled[CHOOSE i \in 1..Len(compiled) :
                     IsRaise(compiled[i]) /\ \A j \in 1..(i - 1) : ~IsRaise(compiled[j])]
    ELSE Step(query, "filter", compiled)

\* relation.mapper.class_ of line 323 / 382: only a relationship has a mapper
RelationModelError(relation, line) ==
    IF relation.kind = "relationship" THEN None ELSE Raise("AttributeError", line)

\* lines 318-331 (create_query) and 377-390 (build_query): one entry of
\* order_by; base is the line of the `if '__' in field_name` test
OrderByOne(query, model, val, base) ==
    IF Contains(val.field.v, DUNDER)
    THEN LET parts == split(val.field.v, DUNDER, -1) IN
         IF Len(parts) # 2 THEN Raise("ValueError", base + 1)
         ELSE LET relation == getattr(model, parts[1], base + 3) IN
              IF IsRaise(relation) THEN relation
              ELSE IF IsRaise(RelationModelError(relation, base + 4))
              THEN RelationModelError(relation, base + 4)
              ELSE LET field == getattr(relation.target, parts[2], base + 5) IN
                   IF IsRaise(field) THEN field
                   ELSE Step(Step(query, "join", relation.target),
                             "order_by", <<Direction(field, val.direction)>>)
    ELSE LET field == getattr(model, val.field.v, base + 10) IN
         IF IsRaise(field) THEN field
         ELSE Step(query, "order_by", <<Direction(field, val.direction)>>)

RECURSIVE OrderByAll(_, _, _, _)
\* the loop over order_by
OrderByAll(query, model, order_by, base) ==
    IF order_by = <<>> THEN query
    ELSE LET q == OrderByOne(query, model, Head(order_by), base) IN
         IF IsRaise(q) THEN q ELSE OrderByAll(q, model, Tail(order_by), base)

\* lines 333-335 and 392-394: order by the primary keys, ascending
OrderByPrimaryKeys(query, model) ==
    LET pks == primary_key_names(model) IN
    Step(query, "order_by",
         [i \in 1..Len(pks) |-> Direction(getattr(model, pks[i], 334), "asc")])

\* lines 315-335
ApplyOrder(query, model, order_by, _ignore_order_by) ==
    IF IsRaise(query) \/ _ignore_order_by THEN query
    ELSE IF order_by # <<>> THEN OrderByAll(query, model, order_by, 319)
    ELSE OrderByPrimaryKeys(query, model)

RECURSIVE GroupByAll(_, _, _)
\* lines 339-341
GroupByAll(query, model, group_by) ==
    IF group_by = <<>> THEN query
    ELSE LET field == getattr(model, Head(group_by).field.v, 340) IN
         IF IsRaise(field) THEN field
         ELSE GroupByAll(Step(query, "group_by", field), model, Tail(group_by))

\* lines 338-341
ApplyGroup(query, model, group_by) ==
    IF IsRaise(query) THEN query ELSE GroupByAll(query, model, group_by)

\* lines 344-345
ApplyLimit(query, limit) ==
    IF IsRaise(query) THEN query
    ELSE IF Truthy(limit) THEN Step(query, "limit", limit) ELSE query

\* lines 346-347
ApplyOffset(query, offset) ==
    IF IsRaise(query) THEN query
    ELSE IF Truthy(offset) THEN Step(query, "offset", offset) ELSE query

\* create_query limiting before it groups
create_query_limit_before_group(model, search_params, _ignore_order_by) ==
    ApplyOffset(
        ApplyGroup(
            ApplyLimit(
                ApplyOrder(
                    ApplyFilters(session_query(model), model, search_params.filters),
                    model, search_params.order_by, _ignore_order_by),
                search_params.limit),
            model, search_params.group_by),
        search_params.offset)

create_query(model, search_params, _ignore_order_by) ==
    ApplyOffset(
        ApplyLimit(
            ApplyGroup(
                ApplyOrder(
                    ApplyFilters(session_query(model), model, search_params.filters),
                    model, search_params.order_by, _ignore_order_by),
                model, search_params.group_by),
            search_params.limit),
        search_params.offset)

\* lines 375-394 of build_query; order_by is None or a list
ApplyOrderBy(query, model, order_by) ==
    IF IsRaise(query) THEN query
    ELSE IF Truthy(order_by) THEN OrderByAll(query, model, order_by.v, 378)
    ELSE OrderByPrimaryKeys(query, model)

\* filters and order_by are None or a list
build_query(model, filters, order_by) ==
    ApplyOrderBy(IF Truthy(filters)
                 THEN ApplyFilters(session_query(model), model, filters.v)
                 ELSE session_query(model),
                 model, order_by)

-----------------------------------------------------------------------------
(* Inputs of the filter compiler *)

s_John == <<"J", "o", "h", "n">>
s_pat == <<"%", "y", "%">>

\* an operator name that is no key of OPERATORS
UnknownOperatorNames == {"between"}

OperatorNames == DOMAIN OPERATORS \cup UnknownOperatorNames

FieldNames == {PyStr(n) : n \in {n_age, n_name, n_pets, n_nick, n_zz}}

Relations == {None, PyStr(<<>>), PyStr(n_pets), PyStr(n_zz)}

ScalarArguments == {None, PyInt(20), PyStr(s_John)}

\* field names of a filter description nested in has / any
NestedNames == {PyStr(n) : n \in {n_name, n_zz, n_owner \o DUNDER \o n_name,
                                  n_owner \o DUNDER \o n_zz,
                                  n_owner \o DUNDER \o n_name \o DUNDER \o n_zz}}

NestedOperatorNames == {"eq", "is_null", "has", "between"}

RECURSIVE Arguments(_)
\* arguments with filter descriptions nested at most depth deep
Arguments(depth) ==
    IF depth = 0
    THEN ScalarArguments
    ELSE ScalarArguments
         \cup {PyDict([name |-> n, op |-> o, val |-> a]) :
                 n \in NestedNames, o \in NestedOperatorNames,
                 a \in Arguments(depth - 1)}
         \cup {PyDict([name |-> n, op |-> o]) :
                 n \in NestedNames, o \in NestedOperatorNames}
         \cup {PyDict([name |-> n]) : n \in NestedNames}
         \cup {PyDict([op |-> o]) : o \in NestedOperatorNames}

NestedArguments == Arguments(MaxNest) \ ScalarArguments

\* the set of the elements of a sequence
Range(seq) == {seq[i] : i \in 1..Len(seq)}

RECURSIVE Concat(_)
\* the sequences of a sequence, one after the other
Concat(seqs) == IF seqs = <<>> THEN <<>> ELSE Head(seqs) \o Concat(Tail(seqs))

\* every list made of an element of heads followed by a list of tails
Conses(heads, tails) ==
    [i \in 1..(Len(heads) * Len(tails)) |->
        <<heads[((i - 1) \div Len(tails)) + 1]>> \o tails[((i - 1) % Len(tails)) + 1]]

\* the leaves of filter descriptions: {name, op, val}
LeafDescriptions ==
    {PyDict([name |-> PyStr(n_age), op |-> "lt", val |-> PyInt(20)]),
     PyDict([name |-> PyStr(n_name), op |-> "like", val |-> PyStr(s_pat)]),
     PyDict([name |-> PyStr(n_name), op |-> "eq", val |-> PyStr(s_John)])}

\* the filter descriptions of one node, each once
SmallestDescriptions ==
    <<PyDict([name |-> PyStr(n_age), op |-> "lt", val |-> PyInt(20)]),
      PyDict([name |-> PyStr(n_name), op |-> "like", val |-> PyStr(s_pat)]),
      PyDict([name |-> PyStr(n_name), op |-> "eq", val |-> PyStr(s_John)]),
      PyDict([or |-> PyList(<<>>)]),
      PyDict([and |-> PyList(<<>>)])>>

RECURSIVE DescriptionTables(_)
\* d[k]: the filter descriptions of exactly k nodes; l[k + 1]: the lists of
\* filter descriptions of k nodes in all; for every k up to n, each once
DescriptionTables(n) ==
    IF n = 0
    THEN [d |-> <<>>, l |-> << << <<>> >> >>]
    ELSE LET t == DescriptionTables(n - 1)
             dn == IF n = 1
                   THEN SmallestDescriptions
                   ELSE [i \in 1..Len(t.l[n]) |-> PyDict([or |-> PyList(t.l[n][i])])]
                        \o [i \in 1..Len(t.l[n]) |-> PyDict([and |-> PyList(t.l[n][i])])]
             d == Append(t.d, dn)
         IN [d |-> d,
             l |-> Append(t.l, Concat([k \in 1..n |-> Conses(d[k], t.l[n - k + 1])]))]

\* filter descriptions of exactly n nodes
DescriptionsOfSize(n) == Range(DescriptionTables(n).d[n])

\* lists of filter descriptions of n nodes in all
ListsOfSize(n) == Range(DescriptionTables(n).l[n + 1])

FilterDescriptions == Range(Concat(DescriptionTables(MaxNodes).d))

\* filters given as plain dicts, the way build_query documents them
DictFilters ==
    {PyDict([name |-> n, op |-> o, value |-> a]) :
        n \in FieldNames \cup {PyStr(n_pets \o DUNDER \o n_name),
                               PyStr(n_pets \o DUNDER \o n_owner \o DUNDER \o n_name)},
        o \in {"eq", "is_null", "any", "between"},
        a \in ScalarArguments}
    \cup {PyDict([name |-> n, op |-> "lt", value |-> None, otherfield |-> f]) :
            n \in FieldNames, f \in FieldNames}
    \cup {PyDict([name |-> n, value |-> a]) : n \in FieldNames, a \in ScalarArguments}
    \cup LeafDescriptions
    \cup DescriptionsOfSize(2)

-----------------------------------------------------------------------------
(* The calls.  pc is "idle" before a call, "parsed" when a filter            *)
(* description has been parsed and is to be compiled, "done" after a call;  *)
(* op names the function called last, args its arguments, rtn what it       *)
(* returned or raised.                                                      *)

Init ==
    /\ pc = "idle"
    /\ op = "none"
    /\ args = None
    /\ rtn = None
    /\ default_options = [k \in {} |-> FALSE]

\* Filter.from_dictionary(dictionary)
ParseFilter ==
    /\ pc = "idle"
    /\ \E dictionary \in FilterDescriptions, model \in {"Person"} :
        /\ op' = "from_dictionary"
        /\ args' = [model |-> model, dictionary |-> dictionary]
        /\ rtn' = from_dictionary(dictionary)
    /\ pc' = "parsed"
    /\ UNCHANGED default_options

\* QueryBuilder._create_filter(model, filt) on the parsed filter
CompileFilter ==
    /\ pc = "parsed"
    /\ op' = "_create_filter"
    /\ args' = [model |-> args.model, filt |-> rtn, dictionary |-> args.dictionary]
    /\ rtn' = _create_filter(args.model, rtn)
    /\ pc' = "done"
    /\ UNCHANGED default_options

\* QueryBuilder._create_filter(model, filt) on a plain dict
CompileDictFilter ==
    /\ pc = "idle"
    /\ \E model \in Models, filt \in DictFilters :
        /\ op' = "_create_filter"
        /\ args' = [model |-> model, filt |-> filt, dictionary |-> None]
        /\ rtn' = _create_filter(model, filt)
    /\ pc' = "done"
    /\ UNCHANGED default_options

\* QueryBuilder._create_operation(model, fieldname, operator, argument, relation)
CreateOperation ==
    /\ pc = "idle"
    /\ \E model \in Models, fieldname \in FieldNames,
          oa \in (OperatorNames \X ScalarArguments \X Relations)
                 \cup ({"has", "any"} \X NestedArguments \X {None}) :
        /\ op' = "_create_operation"
        /\ args' = [model |-> model, fieldname |-> fieldname, operator |-> oa[1],
                    argument |-> oa[2], relation |-> oa[3]]
        /\ rtn' = _create_operation(model, fieldname, oa[1], oa[2], oa[3])
    /\ pc' = "done"
    /\ UNCHANGED default_options

NextFilter == ParseFilter \/ CompileFilter \/ CompileDictFilter \/ CreateOperation

SpecFilter == Init /\ [][NextFilter]_vars

\* one good and one failing filter list, and none
FilterLists ==
    {<<>>,
     <<PyDict([name |-> PyStr(n_name), op |-> "eq", value |-> PyStr(s_John)])>>,
     <<PyDict([name |-> PyStr(n_name), op |-> "is_null", value |-> None]),
       PyDict([name |-> PyStr(n_name), op |-> "eq", value |-> None])>>}

OrderEntries ==
    {[field |-> PyStr(n_name), direction |-> "desc"],
     [field |-> PyStr(n_id), direction |-> "asc"],
     [field |-> PyStr(n_pets \o DUNDER \o n_name), direction |-> "asc"],
     [field |-> PyStr(n_zz), direction |-> "asc"]}

OrderLists ==
    {<<>>} \cup {<<a>> : a \in OrderEntries}
           \cup {<<a, b>> : a \in OrderEntries, b \in OrderEntries}

GroupLists ==
    {<<>>, <<[field |-> PyStr(n_name)]>>, <<[field |-> PyStr(n_zz)]>>}

\* limit and offset: absent, or 0..MaxPage
Pages == {None} \cup {PyInt(n) : n \in 0..MaxPage}

\* QueryBuilder.create_query(session, model, search_params, _ignore_order_by)
CreateQuery ==
    /\ pc = "idle"
    /\ \E model \in Models, filters \in FilterLists, order_by \in OrderLists,
          group_by \in GroupLists, limit \in Pages, offset \in Pages,
          _ignore_order_by \in BOOLEAN :
        LET search_params == [filters |-> filters, order_by |-> order_by,
                              group_by |-> group_by, limit |-> limit,
                              offset |-> offset]
        IN /\ op' = "create_query"
           /\ args' = [model |-> model, search_params |-> search_params,
                       _ignore_order_by |-> _ignore_order_by]
           /\ rtn' = create_query(model, search_params, _ignore_order_by)
    /\ pc' = "done"
    /\ UNCHANGED default_options

\* build_query(session, model, filters, order_by)
BuildQuery ==
    /\ pc = "idle"
    /\ \E model \in Models,
          filters \in {None} \cup {PyList(l) : l \in FilterLists},
          order_by \in {None} \cup {PyList(l) : l \in OrderLists} :
        /\ op' = "build_query"
        /\ args' = [model |-> model, filters |-> filters, order_by |-> order_by]
        /\ rtn' = build_query(model, filters, order_by)
    /\ pc' = "done"
    /\ UNCHANGED default_options

\* the order_by arguments of a query, in the order of the calls
RECURSIVE Ordering(_)
Ordering(steps) ==
    IF steps = <<>> THEN <<>>
    ELSE (IF Head(steps).m = "order_by" THEN Head(steps).a ELSE <<>>)
         \o Ordering(Tail(steps))

\* the call made no explicit order and returned a query
DefaultOrdered ==
    /\ pc = "done" /\ ~IsRaise(rtn)
    /\ \/ op = "create_query" /\ args.search_params.order_by = <<>>
                              /\ ~args._ignore_order_by
       \/ op = "build_query" /\ ~Truthy(args.order_by)

\* the same model compiled once more, by either entry point and with no
\* explicit order; args keeps the first query
CompileAgain ==
    /\ DefaultOrdered
    /\ \E f \in {"create_query", "build_query"}, limit \in Pages :
        /\ op' = f
        /\ args' = [model |-> args.model, first |-> rtn]
        /\ rtn' = IF f = "create_query"
                  THEN create_query(args.model,
                                    [filters |-> <<>>, order_by |-> <<>>,
                                     group_by |-> <<>>, limit |-> limit,
                                     offset |-> None], FALSE)
                  ELSE build_query(args.model, None, None)
    /\ pc' = "again"
    /\ UNCHANGED default_options

NextQuery == CreateQuery \/ BuildQuery \/ CompileAgain

SpecQuery == Init /\ [][NextQuery]_vars

-----------------------------------------------------------------------------
(* Projection trees (parse_columns).  A tree is a dict from names to True   *)
(* or to a tree.                                                            *)

True == PyBool(TRUE)

False == PyBool(FALSE)

\* the dict with no key
EmptyDict == [k \in {} |-> None]

\* d[key] = value on the mapping d
SetItem(d, key, value) ==
    [k \in DOMAIN d \cup {key} |-> IF k = key THEN value ELSE d[k]]

RECURSIVE CollectColumns(_, _)
\* lines 413-417: every string split on its first '.'; a name alone maps to
\* True, the rests of the dotted strings are collected in a list under their
\* first segment
CollectColumns(strings, columns) ==
    IF strings = <<>> THEN PyDict(columns)
    ELSE LET column == split(Head(strings).v, DOT, 1) IN
         IF Len(column) = 1
         THEN CollectColumns(Tail(strings), SetItem(columns, column[1], True))
         ELSE LET item == IF column[1] \in DOMAIN columns
                          THEN columns[column[1]]
                          ELSE PyList(<<>>)
              IN
              IF item.t # "list"
              THEN Raise("AttributeError", 417)
              ELSE CollectColumns(Tail(strings),
                       SetItem(columns, column[1],
                               PyList(Append(item.v, PyStr(column[2])))))

RECURSIVE parse_columns(_)
parse_columns(strings) ==
    IF strings = None THEN None
    ELSE LET columns == CollectColumns(strings.v, EmptyDict) IN
         IF IsRaise(columns) THEN columns
         ELSE LET parsed == [key \in DOMAIN columns.v |->
                                IF columns.v[key].t = "list"
                                THEN parse_columns(columns.v[key])
                                ELSE columns.v[key]]
              IN
              IF \E key \in DOMAIN parsed : IsRaise(parsed[key])
              THEN parsed[CHOOSE key \in DOMAIN parsed : IsRaise(parsed[key])]
              ELSE PyDict(parsed)

\* line 435 testing `include_value is False`
IncludeValueDrops_only_false(include_value) == include_value = False

\* `not include_value` on line 435
IncludeValueDrops(include_value) == ~Truthy(include_value)

RECURSIVE combine_columns(_, _)
combine_columns(requested, include) ==
    IF requested.t # "dict" THEN Raise("AttributeError", 433)
    ELSE IF DOMAIN requested.v # {} /\ include.t # "dict"
    THEN Raise("AttributeError", 434)
    ELSE LET kept == {k \in DOMAIN requested.v :
                        ~IncludeValueDrops(DictGet(include.v, k))}
             combined == [k \in kept |->
                            LET v == requested.v[k]
                                include_value == DictGet(include.v, k)
                            IN IF include_value = True THEN v
                               ELSE IF v = True THEN include_value
                               ELSE combine_columns(v, include_value)]
         IN
         IF \E k \in kept : IsRaise(combined[k])
         THEN combined[CHOOSE k \in kept : IsRaise(combined[k])]
         ELSE PyDict(combined)

\* the segments column paths are made of
Segments == {<<"a">>, <<"b">>}

RECURSIVE PathsOfLength(_)
\* the dotted strings of n segments
PathsOfLength(n) ==
    IF n = 1 THEN Segments
    ELSE {s \o DOT \o p : s \in Segments, p \in PathsOfLength(n - 1)}

Paths == UNION {PathsOfLength(n) : n \in 1..MaxSegments}

RECURSIVE PathLists(_)
\* the lists of n column paths
PathLists(n) ==
    IF n = 0 THEN {<<>>}
    ELSE {Append(l, PyStr(p)) : l \in PathLists(n - 1), p \in Paths}

\* parse_columns(strings)
ParseColumns ==
    /\ pc = "idle"
    /\ \E n \in 0..MaxStrings :
        \E strings \in {None} \cup {PyList(l) : l \in PathLists(n)} :
            /\ op' = "parse_columns"
            /\ args' = [strings |-> strings]
            /\ rtn' = parse_columns(strings)
    /\ pc' = "done"
    /\ UNCHANGED default_options

\* the lists of column paths a handler sets as its include
IncludeLists ==
    {<<>>, <<<<"a">>>>, <<<<"a">>, <<"b">>>>, <<<<"a">> \o DOT \o <<"a">>>>,
     <<<<"a">> \o DOT \o <<"a">>, <<"a">> \o DOT \o <<"b">>>>,
     <<<<"a">> \o DOT \o <<"a">>, <<"b">>>>,
     <<<<"b">> \o DOT \o <<"a">>>>,
     <<<<"a">> \o DOT \o <<"a">> \o DOT \o <<"a">>, <<"b">> \o DOT \o <<"b">>>>}

\* combine_columns(requested, include): requested is the tree parse_columns
\* has just returned, include the tree parse_columns makes of a handler's list
CombineColumns ==
    /\ pc = "done" /\ op = "parse_columns"
    /\ rtn.t = "dict" /\ Len(args.strings.v) <= MaxRequested
    /\ \E l \in IncludeLists :
        LET include == parse_columns(PyList([i \in 1..Len(l) |-> PyStr(l[i])])) IN
        /\ op' = "combine_columns"
        /\ args' = [requested |-> rtn, include |-> include]
        /\ rtn' = combine_columns(rtn, include)
    /\ pc' = "combined"
    /\ UNCHANGED default_options

NextColumns == ParseColumns \/ CombineColumns

SpecColumns == Init /\ [][NextColumns]_vars

-----------------------------------------------------------------------------
(* The serializer (to_deep, to_dict).  A mapped instance is a record value  *)
(* of its model, the set of the attribute names in its __dict__ (the        *)
(* loaded ones) and what getattr gives for each attribute.  A mapping is    *)
(* walked in the ascending order of its keys.                               *)

\* the keys of a mapping in ascending order
SortedKeys(S) ==
    [k \in 1..Cardinality(S) |->
        CHOOSE x \in S : Cardinality({y \in S : StrLess(y, x)}) = k - 1]

InSeq(x, seq) == \E i \in 1..Len(seq) : seq[i] = x

\* the names of the attributes of the given kinds, as the model declares them
NamesOfKind(model, kinds) ==
    LET sel == SelectSeq(ModelAttrs[model], LAMBDA a : a.kind \in kinds) IN
    [i \in 1..Len(sel) |-> sel[i].name]

\* ModelWrapper.get_columns(object_mapper(instance)).keys()
get_columns(model) == NamesOfKind(model, {"column"})

\* ModelWrapper.get_relations(object_mapper(instance)).keys()
get_relations(model) == NamesOfKind(model, {"relationship"})

\* the keys of ModelWrapper.get_proxies(object_mapper(instance))
get_proxies(model) == NamesOfKind(model, {"proxy"})

\* the keys of ModelWrapper.get_hybrids(object_mapper(instance))
get_hybrids(model) == NamesOfKind(model, {"hybrid"})

\* ModelWrapper.get_attributes(object_mapper(instance)).keys()
get_attributes(model) == NamesOfKind(model, {"column", "relationship"})

\* getattr(instance, name) on a value; line is the line of the call
InstanceGetattr(instance, name, line) ==
    IF instance.t = "record" /\ name \in DOMAIN instance.attrs
    THEN instance.attrs[name]
    ELSE Raise("AttributeError", line)

\* the parameter options left at its default: the shared default_options
DefaultOptions == [t |-> "default"]

\* options.get(key, True) giving True whatever options holds
OptionsGet_ignoring_options(options, defaults, key) == TRUE

\* options.get(key, True)
OptionsGet(options, defaults, key) ==
    IF options.t = "default"
    THEN (IF key \in DOMAIN defaults THEN defaults[key] ELSE TRUE)
    ELSE (IF key \in DOMAIN options.v THEN options.v[key].v ELSE TRUE)

\* options[key] on line 562: the defaultdict inserts bool() for a missing
\* key, a dict raises KeyError
OptionsGetItem(options, defaults, key) ==
    IF options.t = "default"
    THEN [err |-> None,
          value |-> IF key \in DOMAIN defaults THEN defaults[key] ELSE FALSE,
          defaults |-> IF key \in DOMAIN defaults THEN defaults
                       ELSE SetItem(defaults, key, FALSE)]
    ELSE [err |-> IF key \in DOMAIN options.v THEN None ELSE Raise("KeyError", 562),
          value |-> IF key \in DOMAIN options.v THEN options.v[key].v ELSE FALSE,
          defaults |-> defaults]

\* the include and exclude of key, and parent: include after setdefault
to_deep(include, exclude, key) ==
    LET found == exclude.t = "dict" /\ key \in DOMAIN exclude.v
        sub == IF include.t = "dict" /\ key \in DOMAIN include.v
               THEN include.v[key]
               ELSE False
    IN [include |-> IF found THEN None ELSE sub,
        exclude |-> IF found THEN exclude.v[key] ELSE None,
        parent |-> IF include.t = "dict" /\ key \notin DOMAIN include.v
                   THEN PyDict(SetItem(include.v, key, False))
                   ELSE include]

\* __basetypes__ without basestring: a string is no base type
IsBaseType_without_basestring(instance) == instance.t \in {"int", "bool", "float"}

\* the test of line 488 left out
BothGiven_skipped(include, exclude) == FALSE

\* `exclude is not None and include is not None` on line 488
BothGiven(include, exclude) == exclude # None /\ include # None

\* isinstance(instance, __basetypes__)
IsBaseType(instance) == instance.t \in {"str", "int", "bool", "float"}

\* what a call of to_dict leaves: its result (or exception), the mapping
\* passed as include as the call leaves it, and default_options
Out(r, include, defaults) == [rtn |-> r, include |-> include, defaults |-> defaults]

\* include after the call made for key has returned: the mapping under key
\* is the object the call worked on
Rejoin(deep, key, child) ==
    IF deep.include.t = "dict"
    THEN PyDict(SetItem(deep.parent.v, key, child.include))
    ELSE deep.parent

RECURSIVE to_dict(_, _, _, _, _)
RECURSIVE to_dict_items(_, _, _, _, _, _, _)
RECURSIVE to_dict_list(_, _, _, _, _, _)
RECURSIVE to_dict_include(_, _, _, _, _, _)
RECURSIVE to_dict_attributes(_, _, _, _, _, _, _)

\* line 513: the comprehension over instance.items()
to_dict_items(items, keys, options, include, exclude, defaults, acc) ==
    IF keys = <<>> THEN Out(PyDict(acc), include, defaults)
    ELSE LET k == Head(keys)
             deep == to_deep(include, exclude, k)
             r == to_dict(items[k], options, deep.include, deep.exclude, defaults)
             parent == Rejoin(deep, k, r)
         IN
         IF IsRaise(r.rtn) THEN Out(r.rtn, parent, r.defaults)
         ELSE to_dict_items(items, Tail(keys), options, parent, exclude,
                            r.defaults, SetItem(acc, k, r.rtn))

\* line 517: the comprehension over the elements
to_dict_list(elems, options, include, exclude, defaults, acc) ==
    IF elems = <<>> THEN Out(PyList(acc), include, defaults)
    ELSE LET r == to_dict(Head(elems), options, include, exclude, defaults) IN
         IF IsRaise(r.rtn) THEN r
         ELSE to_dict_list(Tail(elems), options, r.include, exclude,
                           r.defaults, Append(acc, r.rtn))

\* lines 521-524: the loop over the columns of include
to_dict_include(instance, columns, include, exclude, defaults, acc) ==
    IF columns = <<>> THEN Out(PyDict(acc), include, defaults)
    ELSE LET column == Head(columns)
             node == InstanceGetattr(instance, column, 523)
             deep == to_deep(include, exclude, column)
             r == to_dict(node, DefaultOptions, deep.include, deep.exclude, defaults)
             parent == Rejoin(deep, column, r)
         IN
         IF IsRaise(node) THEN Out(node, include, defaults)
         ELSE IF IsRaise(r.rtn) THEN Out(r.rtn, parent, r.defaults)
         ELSE to_dict_include(instance, Tail(columns), parent, exclude,
                              r.defaults, SetItem(acc, column, r.rtn))

\* lines 540-566: the loop over the attributes of a mapped instance
to_dict_attributes(instance, attributes, options, include, exclude, defaults, acc) ==
    IF attributes = <<>> THEN Out(PyDict(acc), include, defaults)
    ELSE LET column == Head(attributes)
             hybrids == get_hybrids(instance.model)
             columns == get_columns(instance.model)
             continue == to_dict_attributes(instance, Tail(attributes), options,
                                            include, exclude, defaults, acc)
         IN
         IF exclude.t = "bool" THEN Out(Raise("TypeError", 542), include, defaults)
         ELSE IF exclude.t = "dict" /\ column \in DOMAIN exclude.v
                                    /\ exclude.v[column] = True
         THEN continue
         ELSE IF column \in DOMAIN acc THEN continue
         ELSE IF include = False /\ ~InSeq(column, hybrids) /\ ~InSeq(column, columns)
         THEN continue
         ELSE IF /\ column \notin instance.dict
                 /\ ~OptionsGet(options, defaults, "execute_queries")
                 /\ \/ ~InSeq(column, hybrids)
                    \/ ~OptionsGet(options, defaults, "execute_hybrids")
         THEN continue
         ELSE LET node == InstanceGetattr(instance, column, 556) IN
              IF IsRaise(node) THEN Out(node, include, defaults)
              ELSE IF include = False /\ node.t = "Query" THEN continue
              ELSE LET item == IF node.t = "Query"
                               THEN OptionsGetItem(options, defaults, "execute_queries")
                               ELSE [err |-> None, value |-> FALSE,
                                     defaults |-> defaults]
                       all == IF node.t = "Query" /\ item.value
                              THEN PyList(node.rows)
                              ELSE node
                       deep == to_deep(include, exclude, column)
                       r == to_dict(all, DefaultOptions, deep.include,
                                    deep.exclude, item.defaults)
                       parent == Rejoin(deep, column, r)
                   IN
                   IF IsRaise(item.err) THEN Out(item.err, include, defaults)
                   ELSE IF IsRaise(r.rtn) THEN Out(r.rtn, parent, r.defaults)
                   ELSE to_dict_attributes(instance, Tail(attributes), options,
                                           parent, exclude, r.defaults,
                                           SetItem(acc, column, r.rtn))

to_dict(instance, options, include, exclude, defaults) ==
    IF BothGiven(include, exclude)
    THEN Out(Raise("ValueError", 489), include, defaults)
    ELSE IF instance = None THEN Out(None, include, defaults)
    ELSE IF IsBaseType(instance) THEN Out(instance, include, defaults)
    ELSE IF instance.t = "datetime" THEN Out(PyStr(instance.iso), include, defaults)
    ELSE IF instance.t = "WKTElement" THEN Out(instance.mapping, include, defaults)
    ELSE IF instance.t = "UUID" THEN Out(PyStr(instance.hex), include, defaults)
    ELSE IF instance.t = "dict"
    THEN to_dict_items(instance.v, SortedKeys(DOMAIN instance.v), options,
                       include, exclude, defaults, EmptyDict)
    ELSE IF instance.t \in {"list", "Query"}
    THEN to_dict_list(IF instance.t = "list" THEN instance.v ELSE instance.rows,
                      options, include, exclude, defaults, <<>>)
    ELSE IF include.t = "dict"
    THEN to_dict_include(instance, SortedKeys(DOMAIN include.v), include,
                         exclude, defaults, EmptyDict)
    ELSE IF instance.t # "record"
    THEN Out(Raise("DictConvertionError", 535), include, defaults)
    ELSE to_dict_attributes(instance,
                            get_columns(instance.model) \o get_relations(instance.model)
                            \o get_proxies(instance.model) \o get_hybrids(instance.model)
                            \o get_attributes(instance.model),
                            options, include, exclude, defaults, EmptyDict)

\* the scalars of plain values
Scalars == {None, PyInt(1), PyStr(<<"a">>), True}

\* the keys of plain mappings
PlainKeys == {<<"a">>, <<"b">>}

RECURSIVE PlainOfSize(_)
RECURSIVE PlainListsOfSize(_)

\* the plain values of exactly n nodes: a scalar, a sequence or a mapping is
\* one node
PlainOfSize(n) ==
    IF n = 1
    THEN Scalars \cup {PyList(<<>>), PyDict(EmptyDict)}
    ELSE {PyList(l) : l \in PlainListsOfSize(n - 1)}
         \cup {PyDict(SetItem(EmptyDict, k, v)) :
                 k \in PlainKeys, v \in PlainOfSize(n - 1)}
         \cup UNION {{PyDict(SetItem(SetItem(EmptyDict, <<"a">>, v), <<"b">>, w)) :
                         v \in PlainOfSize(i), w \in PlainOfSize(n - 1 - i)} :
                     i \in 1..(n - 2)}

\* the sequences of plain values of n nodes in all
PlainListsOfSize(n) ==
    IF n = 0
    THEN {<<>>}
    ELSE UNION {{<<v>> \o l : v \in PlainOfSize(k), l \in PlainListsOfSize(n - k)} :
                k \in 1..n}

PlainValues == UNION {PlainOfSize(n) : n \in 1..MaxSize}

Record(model, loaded, attrs) ==
    [t |-> "record", model |-> model, dict |-> loaded, attrs |-> attrs]

\* a Pet with its columns loaded and no owner
APet ==
    Record("Pet", {n_id, n_name},
           n_id :> PyInt(1) @@ n_name :> PyStr(<<"a">>) @@ n_owner :> None)

\* what a Person has apart from pets
PersonAttrs ==
    n_id :> PyInt(1) @@ n_name :> PyStr(<<"b">>) @@ n_age :> PyInt(20)
    @@ n_nick :> PyList(<<PyStr(<<"a">>)>>) @@ n_big :> True

\* a Person whose pets are not loaded, one whose pets are loaded, and one
\* whose pets are a dynamic relationship (a Query)
LazyPerson == Record("Person", {n_id, n_name, n_age}, PersonAttrs @@ n_pets :> PyList(<<APet>>))

LoadedPerson ==
    Record("Person", {n_id, n_name, n_age, n_pets}, PersonAttrs @@ n_pets :> PyList(<<APet>>))

DynamicPerson ==
    Record("Person", {n_id, n_name, n_age},
           PersonAttrs @@ n_pets :> [t |-> "Query", rows |-> <<APet>>])

\* values that are not plain
OtherValues ==
    {APet, LazyPerson, LoadedPerson, DynamicPerson,
     [t |-> "object"],
     [t |-> "datetime", iso |-> <<"2", "0", "2", "1">>],
     [t |-> "UUID", hex |-> <<"a", "b">>],
     [t |-> "WKTElement", mapping |-> PyDict(SetItem(EmptyDict, <<"a">>, PyInt(1)))],
     PyList(<<LazyPerson, DynamicPerson>>),
     PyList(<<PyDict(SetItem(EmptyDict, <<"a">>, PyInt(1))), APet>>),
     PyDict(SetItem(EmptyDict, <<"a">>, DynamicPerson))}

\* the options a caller passes: none (the default), or a dict
OptionValues ==
    {DefaultOptions,
     PyDict([execute_queries |-> False, execute_hybrids |-> False]),
     PyDict([execute_queries |-> True, execute_hybrids |-> True]),
     PyDict([execute_hybrids |-> True])}

\* the include and exclude trees a caller passes
TreeValues ==
    {None,
     PyDict(SetItem(EmptyDict, n_name, True)),
     PyDict(SetItem(SetItem(EmptyDict, n_name, True), n_pets,
                    PyDict(SetItem(EmptyDict, n_name, True)))),
     PyDict(SetItem(EmptyDict, <<"a">>, True)),
     PyDict(SetItem(EmptyDict, n_pets, True)),
     PyDict(SetItem(EmptyDict, n_pets, PyDict(SetItem(EmptyDict, n_name, True))))}

\* to_dict(instance, options, include, exclude)
ToDict ==
    /\ pc = "idle"
    /\ \E call \in (PlainValues \X {DefaultOptions} \X {None} \X {None})
                   \cup (OtherValues \X OptionValues \X TreeValues \X TreeValues)
                   \cup ((PlainOfSize(1) \cup PlainOfSize(2))
                         \X OptionValues \X TreeValues \X TreeValues) :
        LET out == to_dict(call[1], call[2], call[3], call[4], default_options) IN
        /\ op' = "to_dict"
        /\ args' = [instance |-> call[1], options |-> call[2],
                    include |-> call[3], exclude |-> call[4],
                    include_after |-> out.include, defaults |-> default_options]
        /\ rtn' = out.rtn
        /\ default_options' = out.defaults
    /\ pc' = "done"

\* to_dict applied to what to_dict returned; args keeps the first result
ToDictAgain ==
    /\ pc = "done" /\ op = "to_dict" /\ ~IsRaise(rtn)
    /\ LET out == to_dict(rtn, args.options, None, None, default_options) IN
        /\ op' = "to_dict"
        /\ args' = [instance |-> rtn, options |-> args.options,
                    include |-> None, exclude |-> None,
                    include_after |-> out.include, defaults |-> default_options,
                    first |-> args.instance]
        /\ rtn' = out.rtn
        /\ default_options' = out.defaults
    /\ pc' = "again"

\* the caller has the result and the process goes on to its next call:
\* default_options stays as the calls so far left it
Return ==
    /\ pc \in {"done", "again"} /\ op = "to_dict"
    /\ pc' = "idle"
    /\ op' = "none"
    /\ args' = None
    /\ rtn' = None
    /\ UNCHANGED default_options

NextDict == ToDict \/ ToDictAgain \/ Return

SpecDict == Init /\ [][NextDict]_vars

-----------------------------------------------------------------------------
(* Properties of the filter compiler *)

\* a call of _create_operation has returned or raised
OperationDone == pc = "done" /\ op = "_create_operation"

\* the name a call of _create_operation looks up on its model
ResolvedName == IF Truthy(args.relation) THEN args.relation.v ELSE args.fieldname.v

\* the attribute ResolvedName names exists on the model
FieldExists == \E i \in 1..Len(ModelAttrs[args.model]) :
                   ModelAttrs[args.model][i].name = ResolvedName

\* the operator of the call is in the table and takes an argument
TakesArgument ==
    /\ args.operator \in DOMAIN OPERATORS
    /\ OPERATORS[args.operator].numargs >= 2

ArityError == Raise("TypeError", 246)

RECURSIVE ExpectedPredicate(_, _)
\* the predicate with the boolean shape of a filter description
ExpectedPredicate(model, dictionary) ==
    LET d == dictionary.v IN
    IF "or" \in DOMAIN d
    THEN [t |-> "pred", sem |-> "or", f |-> None,
          a |-> [i \in 1..Len(d["or"].v) |-> ExpectedPredicate(model, d["or"].v[i])]]
    ELSE IF "and" \in DOMAIN d
    THEN [t |-> "pred", sem |-> "and", f |-> None,
          a |-> [i \in 1..Len(d["and"].v) |-> ExpectedPredicate(model, d["and"].v[i])]]
    ELSE Pred(OPERATORS[d.op].sem, getattr(model, d.name.v, 238), d.val)

\* C1: a filter description parsed by Filter.from_dictionary compiles with
\* _create_filter to the predicate of the same boolean shape: every junction
\* the AND / OR of its compiled subfilters in order, every leaf the
\* comparison its operator names.
C1_SameBooleanShape ==
    (pc = "done" /\ op = "_create_filter" /\ args.dictionary # None)
        => rtn = ExpectedPredicate(args.model, args.dictionary)

\* C2: a leaf whose operator takes an argument (a 1-argument operator, has
\* or any) and that has no argument yields no predicate, so it is never
\* compiled as a comparison against null: it raises, and what it raises is
\* the arity error (TypeError of line 246) unless its field does not exist.
C2_NoArgumentRaises ==
    (OperationDone /\ TakesArgument /\ args.argument = None)
        => /\ IsRaise(rtn)
           /\ FieldExists => rtn = ArityError

C2_Witness ==
    /\ OperationDone /\ TakesArgument /\ args.argument = None
    /\ args.operator = "has" /\ FieldExists
    /\ rtn = ArityError

\* C3: a leaf with a 0-argument operator (is_null, is_not_null) on a field
\* of the model and with a supplied argument raises the arity error
\* (TypeError); the argument is not ignored.
C3_ExtraArgumentRaises ==
    (OperationDone /\ args.operator \in {"is_null", "is_not_null"}
                   /\ FieldExists /\ args.argument # None)
        => (IsRaise(rtn) /\ rtn.exc = "TypeError")

\* C4: a leaf whose operator name is no key of the operator table raises the
\* unknown-operator error (KeyError of line 233) for every model, field name
\* and argument, and yields no predicate.
C4_UnknownOperatorRaises ==
    (OperationDone /\ args.operator \notin DOMAIN OPERATORS)
        => rtn = Raise("KeyError", 233)

C4_Witness ==
    /\ OperationDone /\ args.operator \notin DOMAIN OPERATORS
    /\ ~FieldExists /\ args.argument = None
    /\ rtn = Raise("KeyError", 233)

\* the related model a has / any argument is resolved against
RelatedModel ==
    ModelAttrs[args.model][CHOOSE i \in 1..Len(ModelAttrs[args.model]) :
                              ModelAttrs[args.model][i].name = ResolvedName].target

NameExistsOn(model, name) ==
    \E i \in 1..Len(ModelAttrs[model]) : ModelAttrs[model][i].name = name

\* the call is has / any on an attribute that leads to a related model, with
\* an argument
QuantifierCall ==
    /\ OperationDone /\ args.operator \in {"has", "any"}
    /\ FieldExists /\ RelatedModel \in Models
    /\ args.argument # None

\* C5: a filter whose operators are in the table and that references a
\* field name absent from the model it is resolved against raises the
\* unknown-field error (AttributeError): at the top level, in the filter
\* description nested in has / any, and in the legacy bare-literal form.
C5_UnknownFieldRaises ==
    /\ (OperationDone /\ args.operator \in DOMAIN OPERATORS /\ ~FieldExists)
            => (IsRaise(rtn) /\ rtn.exc = "AttributeError")
    /\ (QuantifierCall /\ args.argument.t = "dict"
            /\ DOMAIN args.argument.v = {"name", "op", "val"}
            /\ args.argument.v.op \in DOMAIN OPERATORS
            /\ ~Contains(args.argument.v.name.v, DUNDER)
            /\ ~NameExistsOn(RelatedModel, args.argument.v.name.v))
            => (IsRaise(rtn) /\ rtn.exc = "AttributeError")
    /\ (QuantifierCall /\ args.argument.t # "dict"
            /\ ~NameExistsOn(RelatedModel, args.fieldname.v))
            => (IsRaise(rtn) /\ rtn.exc = "AttributeError")

-----------------------------------------------------------------------------
(* Properties of the query builder *)

\* the names of the primary-key columns a model declares
PrimaryKeyFields(model) ==
    {ModelAttrs[model][i].name : i \in {j \in 1..Len(ModelAttrs[model]) :
                                           ModelAttrs[model][j].pk}}

\* C6: with no explicit order (and ordering not ignored) the query of
\* create_query and of build_query is ordered by exactly the primary-key
\* fields of the model, each once and ascending, and compiling the same
\* model again gives the same ordering.
C6_DefaultOrderIsPrimaryKeys ==
    /\ DefaultOrdered =>
          LET o == Ordering(rtn.steps) IN
          /\ {o[i].f.name : i \in 1..Len(o)} = PrimaryKeyFields(args.model)
          /\ Len(o) = Cardinality(PrimaryKeyFields(args.model))
          /\ \A i \in 1..Len(o) : o[i].dir = "asc" /\ o[i].f.model = args.model
    /\ pc = "again" => Ordering(rtn.steps) = Ordering(args.first.steps)

C6_Witness ==
    /\ pc = "again" /\ args.model = "Member" /\ op = "build_query"
    /\ Len(args.first.steps) > 1
    /\ Len(Ordering(rtn.steps)) = 2

\* the place of a query method in filter, order, group, limit, offset
StepRank(m) ==
    CASE m = "filter" -> 1
      [] m \in {"join", "order_by"} -> 2
      [] m = "group_by" -> 3
      [] m = "limit" -> 4
      [] m = "offset" -> 5

\* create_query has returned a query
QueryCreated == pc = "done" /\ op = "create_query" /\ ~IsRaise(rtn)

\* C7: the steps of a query made by create_query are applied in the order
\* filter, order, group, limit, offset: no step comes before a step that is
\* earlier in this list.
C7_FixedStepOrder ==
    QueryCreated =>
        \A i, j \in 1..Len(rtn.steps) :
            i < j => StepRank(rtn.steps[i].m) <= StepRank(rtn.steps[j].m)

C7_Witness ==
    /\ QueryCreated
    /\ {rtn.steps[i].m : i \in 1..Len(rtn.steps)}
          = {"filter", "join", "order_by", "group_by", "limit", "offset"}

\* the arguments of the calls of method m on a query, in order
StepArguments(steps, m) ==
    LET idx == {i \in 1..Len(steps) : steps[i].m = m} IN
    [k \in 1..Cardinality(idx) |->
        steps[CHOOSE i \in idx : Cardinality({j \in idx : j < i}) = k - 1].a]

\* C8: limit and offset are independent: for limit and offset each absent or
\* an integer >= 0, the query carries limit L exactly when a limit L was
\* supplied and offset O exactly when an offset O was supplied.
C8_LimitOffsetIndependent ==
    QueryCreated =>
        /\ StepArguments(rtn.steps, "limit")
              = (IF args.search_params.limit = None
                 THEN <<>> ELSE <<args.search_params.limit>>)
        /\ StepArguments(rtn.steps, "offset")
              = (IF args.search_params.offset = None
                 THEN <<>> ELSE <<args.search_params.offset>>)

-----------------------------------------------------------------------------
(* Properties of parse_columns *)

\* the first segment of a path, and what follows its first '.'
FirstSegment(path) ==
    IF Contains(path, DOT) THEN SubSeq(path, 1, Find(path, DOT) - 1) ELSE path

AfterFirstDot(path) == SubSeq(path, Find(path, DOT) + 1, Len(path))

RECURSIVE IsTreeOf(_, _)
\* tree is the projection tree of a set of paths: its keys are the first
\* segments; a key given only as a name maps to True, a key given only in
\* dotted paths maps to the tree of what follows the dot in them, and a key
\* given both ways maps to one of the two
IsTreeOf(tree, paths) ==
    /\ tree.t = "dict"
    /\ DOMAIN tree.v = {FirstSegment(p) : p \in paths}
    /\ \A key \in DOMAIN tree.v :
          LET named == key \in paths
              under == {AfterFirstDot(p) :
                          p \in {q \in paths : Contains(q, DOT)
                                               /\ FirstSegment(q) = key}}
          IN \/ named /\ tree.v[key] = True
             \/ under # {} /\ IsTreeOf(tree.v[key], under)

\* C9: parse_columns turns every list of dotted paths into the projection
\* tree of those paths, also a list that holds a name and a dotted path
\* under that name, in either order.
C9_ParsesEveryList ==
    (pc = "done" /\ op = "parse_columns" /\ args.strings # None)
        => IsTreeOf(rtn, {args.strings.v[i].v : i \in 1..Len(args.strings.v)})

-----------------------------------------------------------------------------
(* Properties of the serializer *)

RECURSIVE IsPlain(_)
\* null, a primitive, or a mapping or sequence of plain values
IsPlain(value) ==
    \/ value.t \in {"None", "int", "str", "bool", "float"}
    \/ value.t = "list" /\ \A i \in 1..Len(value.v) : IsPlain(value.v[i])
    \/ value.t = "dict" /\ \A k \in DOMAIN value.v : IsPlain(value.v[k])

\* C10: to_dict of a plain value with no include and no exclude returns an
\* equal value, so to_dict applied to its own result returns that result.
C10_PlainValuesUnchanged ==
    (op = "to_dict" /\ IsPlain(args.instance)
        /\ args.include = None /\ args.exclude = None)
        => rtn = args.instance

C10_Witness ==
    /\ pc = "again" /\ op = "to_dict"
    /\ IsPlain(args.first) /\ args.first.t = "dict"
    /\ \E k \in DOMAIN args.first.v : args.first.v[k].t = "list"
                                      /\ args.first.v[k].v # <<>>
    /\ rtn = args.first

\* C11: a to_dict call with both include and exclude given raises the error
\* of line 489 whatever the value is, and does no work: include is left as
\* it was passed and default_options as it was before the call.
C11_ConflictRaisesFirst ==
    [][(op' = "to_dict" /\ args'.include # None /\ args'.exclude # None)
          => /\ rtn' = Raise("ValueError", 489)
             /\ args'.include_after = args'.include
             /\ default_options' = default_options]_vars

C11_Witness ==
    /\ op = "to_dict" /\ pc = "done"
    /\ args.include # None /\ args.exclude # None
    /\ args.instance = DynamicPerson
    /\ rtn = Raise("ValueError", 489)

\* the call in args made with no include and no exclude instead, from the
\* same default_options
DefaultSerialization ==
    to_dict(args.instance, args.options, None, None, args.defaults).rtn

\* a mapping without its entry k
Without(d, k) == [x \in DOMAIN d \ {k} |-> d[x]]

\* C12: for a record and a name k its default serialization emits,
\* serializing with exclude = {k: True} returns the default mapping with
\* the entry k removed.
C12_ExcludeRemovesOneEntry ==
    (/\ op = "to_dict" /\ pc = "done" /\ args.instance.t = "record"
     /\ args.include = None /\ args.exclude.t = "dict"
     /\ DefaultSerialization.t = "dict"
     /\ \E k \in DOMAIN DefaultSerialization.v :
            args.exclude = PyDict(SetItem(EmptyDict, k, True)))
        => \E k \in DOMAIN args.exclude.v :
              rtn = PyDict(Without(DefaultSerialization.v, k))

\* a record serialized below the top level: its columns and hybrids
ColumnsOnly(record) ==
    PyDict([k \in Range(get_columns(record.model)) \cup Range(get_hybrids(record.model))
               |-> record.attrs[k]])

\* what a relation attribute serializes to below the top level: the sequence
\* of its serialized records when it is to-many (a list, or the rows of a
\* Query), the serialized record or null when it is to-one
SerializedRelated(node) ==
    IF node.t \in {"list", "Query"}
    THEN LET rows == IF node.t = "Query" THEN node.rows ELSE node.v IN
         PyList([i \in 1..Len(rows) |-> ColumnsOnly(rows[i])])
    ELSE IF node.t = "record" THEN ColumnsOnly(node)
    ELSE node

\* execute_queries is true for the call in args: true in the options it
\* passed or in the shared default it ran with, or absent from them
ExecuteQueriesIsTrue ==
    LET given == IF args.options.t = "default"
                 THEN [k \in DOMAIN args.defaults |-> PyBool(args.defaults[k])]
                 ELSE args.options.v
    IN "execute_queries" \in DOMAIN given => given["execute_queries"] = True

\* a record was serialized at top level with no include and no exclude
DefaultRecordCall ==
    /\ op = "to_dict" /\ pc = "done" /\ args.instance.t = "record"
    /\ args.include = None /\ args.exclude = None /\ rtn.t = "dict"

\* C13: in the default serialization of a record, a relation that is not
\* loaded is in the output only if execute_queries is true for the call, and
\* its value is then the sequence of the serialized related records.
C13_LazyRelationNeedsFlag ==
    DefaultRecordCall =>
        \A k \in Range(get_relations(args.instance.model)) :
            (k \notin args.instance.dict /\ k \in DOMAIN rtn.v)
                => /\ ExecuteQueriesIsTrue
                   /\ rtn.v[k] = SerializedRelated(args.instance.attrs[k])

C13_Witness ==
    /\ DefaultRecordCall /\ args.instance = LazyPerson
    /\ args.options = PyDict([execute_queries |-> True, execute_hybrids |-> True])
    /\ n_pets \in DOMAIN rtn.v /\ rtn.v[n_pets].v # <<>>

RECURSIVE KeyPaths(_)
\* the key paths of a serialized value: the keys of a mapping, each followed
\* by the key paths of its value; a sequence has the key paths of its
\* elements
KeyPaths(value) ==
    IF value.t = "dict"
    THEN UNION {{<<k>>} \cup {<<k>> \o q : q \in KeyPaths(value.v[k])} :
                k \in DOMAIN value.v}
    ELSE IF value.t = "list"
    THEN UNION {KeyPaths(value.v[i]) : i \in 1..Len(value.v)}
    ELSE {}

\* C14: for a record and an exclude tree, every key path of the output is a
\* key path of the output with no include and no exclude.
C14_ExcludeOnlyTrims ==
    (/\ op = "to_dict" /\ pc = "done" /\ args.instance.t = "record"
     /\ args.include = None /\ args.exclude.t = "dict"
     /\ rtn.t = "dict" /\ DefaultSerialization.t = "dict")
        => KeyPaths(rtn) \subseteq KeyPaths(DefaultSerialization)

\* what the call in args returns when it is the first call of the process
FirstCallResult ==
    to_dict(args.instance, args.options, args.include, args.exclude,
            [k \in {} |-> FALSE]).rtn

\* C15: whatever calls came before, a to_dict call returns what the same
\* call returns as the first call of the process.
C15_CallsAreIndependent ==
    (op = "to_dict" /\ pc = "done") => rtn = FirstCallResult

\* C16: a to_dict call on a sequence leaves the include tree it was given
\* as it was, so that every element is serialized under the tree the
\* sequence was given (exclude is only read).
C16_SequenceKeepsScope ==
    (op = "to_dict" /\ args.instance.t = "list" /\ args.include.t = "dict")
        => args.include_after = args.include

RECURSIVE Permitted(_, _)
\* include permits tree: every key of tree is a key of include, and under it
\* include holds True or a subtree that permits the subtree of tree
Permitted(tree, include) ==
    \A k \in DOMAIN tree.v :
        /\ k \in DOMAIN include.v
        /\ \/ include.v[k] = True
           \/ /\ include.v[k].t = "dict" /\ tree.v[k].t = "dict"
              /\ Permitted(tree.v[k], include.v[k])

\* C17: the tree combine_columns returns is permitted by include: no key
\* absent from include is in it, under a key where include is a subtree it
\* is within that subtree, and where both sides are subtrees it is their
\* combination.
C17_IncludeIsAllowlist ==
    op = "combine_columns" =>
        /\ rtn.t = "dict"
        /\ Permitted(rtn, args.include)
        /\ \A k \in DOMAIN args.requested.v \cap DOMAIN args.include.v :
              (args.requested.v[k].t = "dict" /\ args.include.v[k].t = "dict")
                  => rtn.v[k] = combine_columns(args.requested.v[k], args.include.v[k])

C17_Witness ==
    /\ op = "combine_columns" /\ rtn.t = "dict"
    /\ \E k \in DOMAIN args.requested.v : k \notin DOMAIN args.include.v
    /\ \E k \in DOMAIN rtn.v :
          /\ args.requested.v[k].t = "dict" /\ args.include.v[k].t = "dict"
          /\ rtn.v[k] # args.requested.v[k]

\* a leaf given as a plain dict with name, op and value has been compiled
LeafCompiled ==
    /\ pc = "done" /\ op = "_create_filter"
    /\ args.filt.t = "dict" /\ DOMAIN args.filt.v = {"name", "op", "value"}

\* the field name of the leaf, split on its first separator only
FirstSplit == split(args.filt.v.name.v, DUNDER, 1)

\* C18: a leaf whose field name holds the separator compiles as the
\* operation on the relation before the first separator and the field after
\* it, however many separators the name holds; nested in has / any the split
\* of such a name does not fail either.
C18_SplitsOnFirstSeparator ==
    /\ (LeafCompiled /\ Contains(args.filt.v.name.v, DUNDER))
          => rtn = _create_operation(args.model, PyStr(FirstSplit[2]), args.filt.v.op,
                                     args.filt.v.value, PyStr(FirstSplit[1]))
    /\ (QuantifierCall /\ args.argument.t = "dict"
            /\ {"name", "op"} \subseteq DOMAIN args.argument.v
            /\ Contains(args.argument.v.name.v, DUNDER))
          => rtn # Raise("ValueError", 144)

IsPrimaryKey(attr) == attr.kind = "column" /\ attr.pk

\* the names of the primary-key columns of a model, in the order in which
\* the model declares them
DeclaredPrimaryKeys(model) ==
    LET pks == SelectSeq(ModelAttrs[model], IsPrimaryKey) IN
    [i \in 1..Len(pks) |-> pks[i].name]

\* C19: with no explicit order the query is ordered by the primary-key
\* fields of the model in the order in which the model declares them.
C19_DefaultOrderIsDeclaredOrder ==
    DefaultOrdered =>
        LET o == Ordering(rtn.steps) IN
        [i \in 1..Len(o) |-> o[i].f.name] = DeclaredPrimaryKeys(args.model)

\* a record has been serialized to a mapping under options the caller gave
RecordCallWithOptions ==
    /\ op = "to_dict" /\ pc = "done"
    /\ args.instance.t = "record" /\ args.options.t = "dict"
    /\ rtn.t = "dict"

\* the value of attribute key of the record, serialized with the options of
\* the call and the include and exclude of key
WithOptionsOfCall(key) ==
    LET node == args.instance.attrs[key]
        deep == to_deep(args.include, args.exclude, key)
    IN to_dict(IF node.t = "Query" /\ ExecuteQueriesIsTrue THEN PyList(node.rows) ELSE node,
               args.options, deep.include, deep.exclude, args.defaults).rtn

\* C20: every attribute of a serialized record that is itself a record or a
\* collection of records appears serialized with the options of the
\* top-level call.
C20_OptionsGovernEveryLevel ==
    RecordCallWithOptions =>
        \A key \in DOMAIN rtn.v :
            args.instance.attrs[key].t \in {"record", "list", "Query"}
                => rtn.v[key] = WithOptionsOfCall(key)

====
